---- MODULE Spec2Model ----
(***************************************************************************)
(* A model of ix::HttpClient (ixwebsocket/IXHttpClient.cpp): the           *)
(* synchronous request engine with its redirect recursion under _mutex,    *)
(* and the asynchronous dispatcher (performRequest / run / ~HttpClient)    *)
(* around it.                                                              *)
(***************************************************************************)
EXTENDS Integers, Sequences, FiniteSets, TLC

\* ------------------------------------------------------------------ bounds
\* performRequest calls made over the life of an asynchronous client
MaxEnqueue == 2
\* synchronous calls a caller makes while the worker serves the queue
MaxSync == 1
\* performRequest calls made beside those synchronous calls
MaxMixedEnqueue == 1
\* synchronous calls a caller makes when it has the client to itself
MaxEngineCalls == 1
\* args->maxRedirects is drawn from 0..MaxRedirectsArg
MaxRedirectsArg == 1
\* chunks a server sends before the model forces the zero-size chunk
MaxChunks == 1

\* ----------------------------------------------------------------- threads
Worker == "w"
Callers == {"c1", "c2"}
Threads == Callers \cup {Worker}
\* the caller that calls get/head/post directly, and the one that enqueues beside it
SyncCaller == "c1"
OtherCaller == "c2"
NoThread == "none"

\* ------------------------------------------------------------- the protocol
kGet == "GET"
kHead == "HEAD"
kPost == "POST"
Verbs == {kGet, kHead, kPost}

\* HttpErrorCode
Ok == "Ok"
UrlMalformed == "UrlMalformed"
CannotCreateSocket == "CannotCreateSocket"
CannotConnect == "CannotConnect"
SendError == "SendError"
CannotReadStatusLine == "CannotReadStatusLine"
MissingStatus == "MissingStatus"
HeaderParsingError == "HeaderParsingError"
MissingLocation == "MissingLocation"
TooManyRedirects == "TooManyRedirects"
ChunkReadError == "ChunkReadError"
CannotReadBody == "CannotReadBody"
Gzip == "Gzip"

\* Status lines a server may send: <<protocol, code>>; a line with no code
\* is <<protocol>>.
StatusCodes == {200, 204, 300, 301, 308, 309}
StatusLines == {<<"HTTP/1.1", c>> : c \in StatusCodes} \cup {<<"HTTP/1.0", 200>>, <<"HTTP/1.1">>}

\* sscanf(line, "HTTP/1.1 %d", &code): the number of conversions made
sscanfStatus(line) == IF Len(line) = 2 /\ line[1] = "HTTP/1.1" THEN 1 ELSE 0

\* WebSocketHttpHeaders: a mapping from header name to value
NoHeaders == [k \in {} |-> ""]
HeadersFind(h, k) == k \in DOMAIN h
HeadersGet(h, k) == IF k \in DOMAIN h THEN h[k] ELSE ""
\* headers[k]: operator[] of the mapping inserts an empty value for a missing key
HeadersIndex(h, k) == IF k \in DOMAIN h THEN h ELSE h @@ (k :> "")

\* Header blocks a server may send
ResponseHeaders == { NoHeaders,
                     "Location" :> "u2",
                     "Content-Length" :> "1",
                     "Content-Length" :> "2",
                     "Transfer-Encoding" :> "chunked",
                     "Transfer-Encoding" :> "identity",
                     ("Content-Length" :> "1") @@ ("Transfer-Encoding" :> "chunked"),
                     ("Content-Length" :> "1") @@ ("Content-Encoding" :> "gzip") }

\* Chunk-size lines a server may send, as readLine returns them (without the line
\* terminator): << hexadecimal digits, chunk extension >>
ZeroLine == << "0", "" >>
SizeLines == { ZeroLine, << "1", "" >>, << "a", "" >>, << "1", ";x" >> }

\* Header names in the order a WebSocketHttpHeaders mapping iterates over them
HeaderOrder == << "Accept", "Content-Type", "User-Agent" >>

\* for (auto&& it : args->extraHeaders) ss << it.first << ": " << it.second << "\r\n";
ExtraHeaderLines(extra) ==
    LET present(k) == k \in DOMAIN extra
        names == SelectSeq(HeaderOrder, present) IN
    [i \in 1..Len(names) |-> << names[i], extra[names[i]] >>]

\* The mapping lines 162 and 168 look Accept and User-Agent up in: the local
\* `headers` of request(), which holds the response's headers once they are read
TestedHeaders(a, h) == h

\* The serialized request (lines 146-190), as its sequence of << name, value >> lines
\* followed by the body; h is the local `headers` at that point
BuildRequest(verb, url, body, a, h) ==
    << << verb, url >>, << "Host", "host" >> >>
      \o (IF a.compress THEN << << "Accept-Encoding", "gzip" >> >> ELSE << >>)
      \o ExtraHeaderLines(a.extraHeaders)
      \o (IF ~HeadersFind(TestedHeaders(a, h), "Accept")
          THEN << << "Accept", "*/*" >> >> ELSE << >>)
      \o (IF ~HeadersFind(TestedHeaders(a, h), "User-Agent")
          THEN << << "User-Agent", "ixwebsocket" >> >> ELSE << >>)
      \o (IF verb = kPost
          THEN << << "Content-Length", "body.size()" >> >>
                 \o (IF ~HeadersFind(a.extraHeaders, "Content-Type")
                     THEN << << "Content-Type", "application/x-www-form-urlencoded" >> >>
                     ELSE << >>)
                 \o << << "", "" >> >> \o body
          ELSE << << "", "" >> >>)

\* the body post() passes, and the empty body of get() and head()
BodyOf(verb) == IF verb = kPost THEN << << "body", "p" >> >> ELSE << >>

\* ------------------------------------------------------------------- state
VARIABLES
    async,        \* _async
    stop,         \* _stop
    queue,        \* _queue: the entry ids waiting, oldest first
    queueMutex,   \* holder of _queueMutex
    mutex,        \* holder of _mutex
    mutexDepth,   \* acquisitions of _mutex held by its holder
    socket,       \* _socket: <<thread, hop, created>> of the call that assigned it
    pc,           \* position of each thread
    args,         \* HttpRequestArgs of the call each thread is in
    frame,        \* locals of the innermost request() frame of each thread
    resp,         \* HttpResponse each thread's request() returned
    dpc,          \* position of the thread running ~HttpClient
    aborted,      \* std::terminate was called
    entry,        \* entry the worker popped
    nextId,       \* id of the next performRequest call
    syncLeft,     \* synchronous calls the callers will still make
    enqLeft,      \* performRequest calls the callers will still make
    env,          \* what the callers ask for and what the servers answer
    myId,         \* entry id a caller is enqueuing
    appended,     \* history: entry ids in the order they were pushed
    started,      \* history: entry ids in the order the worker called request
    called,       \* history: entry ids in the order callbacks were invoked
    atStop        \* history: the queue, the requests started and whether the worker had
                  \* passed its last check of _stop, when _stop was raised

vars == << async, stop, queue, queueMutex, mutex, mutexDepth, socket, pc, args, frame,
           resp, dpc, aborted, entry, nextId, syncLeft, enqLeft, env, myId, appended, started,
           called, atStop >>

\* the url a call is made with
FirstUrl == "u1"

\* extraHeaders a caller may set
ExtraHeadersSet == { NoHeaders, "Accept" :> "text/html", "User-Agent" :> "agent",
                     "Content-Type" :> "text/plain" }

NoArgs == [verb |-> kGet, followRedirects |-> FALSE, maxRedirects |-> 0,
           compress |-> FALSE, extraHeaders |-> NoHeaders]
ArgsSet == [verb : Verbs, followRedirects : BOOLEAN, maxRedirects : 0..MaxRedirectsArg,
            compress : BOOLEAN, extraHeaders : ExtraHeadersSet]

\* locals of request() as declared at its entry
\* (hops, ops, answers and failed are history: the connections opened, the transport
\* calls made and the redirects with a Location received by the logical call so far,
\* and the first stage that reported a failure; served is history too: the chunk
\* sizes the server has announced. ssGood is the state of the chunked branch's
\* std::stringstream: no eofbit and no failbit)
NewFrame(redirects, hops, ops, answers) ==
    [ redirects |-> redirects, url |-> FirstUrl, code |-> 0, headers |-> NoHeaders,
      payload |-> << >>,
      uploadSize |-> 0, downloadSize |-> 0, errorMsg |-> "",
      requestInitCancellation |-> FALSE, deadlinePassed |-> FALSE,
      chunkSize |-> 0, chunks |-> 0, hops |-> hops, ops |-> ops, answers |-> answers,
      failed |-> "none", ssGood |-> TRUE, served |-> << >>, req |-> << >> ]

NoResp == [ statusCode |-> 0, errorCode |-> "none", headers |-> NoHeaders,
            payload |-> << >>, errorMsg |-> "", uploadSize |-> 0, downloadSize |-> 0 ]

\* Everything callers may ask for and servers may answer; transport and library
\* calls may fail on their own
FullEnv == [ args |-> ArgsSet, lines |-> StatusLines, headers |-> ResponseHeaders,
             sizeLines |-> SizeLines, results |-> BOOLEAN ]

\* Callers that follow redirects, and servers that answer 200 or 301, with chunked
\* bodies that are empty, over a transport that fails only when it is cancelled
PlainEnv == [ args |-> {[verb |-> kGet, followRedirects |-> TRUE,
                         maxRedirects |-> MaxRedirectsArg, compress |-> FALSE,
                         extraHeaders |-> NoHeaders]},
              lines |-> {<<"HTTP/1.1", 200>>, <<"HTTP/1.1", 301>>},
              headers |-> {"Location" :> "u2", "Content-Length" :> "1",
                           "Transfer-Encoding" :> "chunked"},
              sizeLines |-> {ZeroLine}, results |-> {TRUE} ]

\* The state HttpClient(async) constructs, for callers that will make `syncs`
\* synchronous calls and `enqs` performRequest calls in the environment e
Constructed(a, e, syncs, enqs) ==
    /\ async = a
    /\ env = e
    /\ syncLeft = syncs
    /\ enqLeft = enqs
    /\ stop = FALSE
    /\ queue = << >>
    /\ queueMutex = NoThread
    /\ mutex = NoThread
    /\ mutexDepth = 0
    /\ socket = << NoThread, 0, FALSE >>
    /\ pc = [t \in Threads |-> IF t = Worker THEN (IF async THEN "w_lock" ELSE "nothread")
                                             ELSE "idle"]
    /\ args = [t \in Threads |-> NoArgs]
    /\ frame = [t \in Threads |-> NewFrame(0, 0, 0, 0)]
    /\ resp = [t \in Threads |-> NoResp]
    /\ dpc = "alive"
    /\ aborted = FALSE
    /\ entry = 0
    /\ nextId = 1
    /\ myId = [t \in Callers |-> 0]
    /\ appended = << >>
    /\ started = << >>
    /\ called = << >>
    /\ atStop = [queued |-> {}, started |-> 0, passed |-> FALSE]

\* an asynchronous or synchronous-only client used through performRequest
Init == \E a \in BOOLEAN : Constructed(a, PlainEnv, 0, MaxEnqueue)

\* a client whose callers call it directly while its worker serves the queue
MixedInit == Constructed(TRUE, PlainEnv, MaxSync, MaxMixedEnqueue)

\* a synchronous-only client one caller has to itself
EngineInit == Constructed(FALSE, FullEnv, MaxEngineCalls, 0)

dispVars == << async, stop, queue, queueMutex, dpc, entry, nextId, myId, appended,
               started, called, atStop >>

\* ------------------------------------------------ HttpClient::request (105-418)
\* Positions inside request()
RequestPcs == { "lock", "selfwait", "parse", "socket", "connect", "write", "status",
                "headers", "redirect", "body", "chunk_line", "chunk_bytes",
                "chunk_trail", "gzip" }
\* Positions at which the next step is a transport call
IOPcs == { "connect", "write", "status", "headers", "body", "chunk_line",
           "chunk_bytes", "chunk_trail" }

\* The predicate makeCancellationRequestWithTimeout(timeout, flag) returns: the
\* flag is raised or the deadline has passed
IsCancellationRequested(f) == f.requestInitCancellation \/ f.deadlinePassed

\* Outcomes a cancellable transport primitive may report: it fails when it polls a
\* predicate that asks for cancellation, and may fail on its own
IOResults(f) == IF IsCancellationRequested(f) THEN {FALSE} ELSE env.results

\* Outcomes of a step that does not poll the predicate (URL parsing, socket
\* creation, inflate)
Results == env.results

\* (a request() that takes _mutex whoever holds it)
LockNotHonoured(t) == TRUE

\* std::lock_guard<std::mutex> lock(_mutex) can take the mutex
CanLock(t) == mutex = NoThread

\* What locking a std::mutex its caller already owns may do: wait for ever, throw
\* std::system_error (resource_deadlock_would_occur), or take it once more
RelockOutcomes == {"block", "throw", "acquire"}

\* return std::make_shared<HttpResponse>(code, err, headers, payload, msg,
\* uploadSize, downloadSize), which also ends every lock_guard of the call
Respond(t, f, err, msg) ==
    /\ resp' = [resp EXCEPT ![t] = [ statusCode |-> f.code, errorCode |-> err,
                                     headers |-> f.headers, payload |-> f.payload,
                                     errorMsg |-> msg, uploadSize |-> f.uploadSize,
                                     downloadSize |-> f.downloadSize ]]
    /\ frame' = [frame EXCEPT ![t] = f]
    /\ mutex' = NoThread
    /\ mutexDepth' = 0
    /\ pc' = [pc EXCEPT ![t] = IF t = Worker THEN "w_cb" ELSE "done"]

\* (a failed stage that is tried again instead of ending the call)
FailRetried(t, f, stage, err, msg) ==
    /\ frame' = [frame EXCEPT ![t] = [f EXCEPT !.failed = stage]]
    /\ UNCHANGED << pc, resp, mutex, mutexDepth >>

\* (a failed stage after which the call connects again)
FailReconnects(t, f, stage, err, msg) ==
    /\ frame' = [frame EXCEPT ![t] = [f EXCEPT !.failed = stage]]
    /\ pc' = [pc EXCEPT ![t] = "connect"]
    /\ UNCHANGED << resp, mutex, mutexDepth >>

\* A failed stage: the response with that stage's error code
Fail(t, f, stage, err, msg) == Respond(t, [f EXCEPT !.failed = stage], err, msg)

Goto(t, f, where) ==
    /\ frame' = [frame EXCEPT ![t] = f]
    /\ pc' = [pc EXCEPT ![t] = where]
    /\ UNCHANGED << resp, mutex, mutexDepth >>

IOStep(f) == [f EXCEPT !.ops = @ + 1]

\* An exception that leaves request(): it unwinds the caller's frames, and in the
\* worker, which catches nothing, it ends the process (std::terminate)
Throw(t) ==
    IF t = Worker
    THEN /\ pc' = [u \in Threads |-> "terminated"]
         /\ dpc' = "terminated"
         /\ aborted' = TRUE
    ELSE /\ pc' = [pc EXCEPT ![t] = "thrown"]
         /\ UNCHANGED << dpc, aborted >>

ReqLock(t) ==
    /\ pc[t] = "lock"
    /\ \/ /\ mutex # t
          /\ CanLock(t)
          /\ mutex' = t
          /\ mutexDepth' = 1
          /\ pc' = [pc EXCEPT ![t] = "parse"]
          /\ UNCHANGED << dpc, aborted >>
       \/ /\ mutex = t
          /\ \E outcome \in RelockOutcomes :
               \/ /\ outcome = "block"
                  /\ pc' = [pc EXCEPT ![t] = "selfwait"]
                  /\ UNCHANGED << mutex, mutexDepth, dpc, aborted >>
               \/ /\ outcome = "throw"
                  /\ Throw(t)
                  /\ mutex' = NoThread
                  /\ mutexDepth' = 0
               \/ /\ outcome = "acquire"
                  /\ pc' = [pc EXCEPT ![t] = "parse"]
                  /\ mutexDepth' = mutexDepth + 1
                  /\ UNCHANGED << mutex, dpc, aborted >>
    /\ UNCHANGED << async, stop, queue, queueMutex, entry, nextId, myId, appended,
                    started, called, atStop, socket, args, frame, resp, syncLeft,
                    enqLeft, env >>

ReqParse(t) ==
    /\ pc[t] = "parse"
    /\ \E ok \in Results :
         IF ok THEN Goto(t, frame[t], "socket")
               ELSE Fail(t, frame[t], "parse", UrlMalformed, "Cannot parse url")
    /\ UNCHANGED << dispVars, socket, args, aborted, syncLeft, enqLeft, env >>

ReqSocket(t) ==
    /\ pc[t] = "socket"
    /\ \E ok \in Results :
         IF ok THEN /\ socket' = << t, frame[t].redirects, TRUE >>
                    /\ Goto(t, frame[t], "connect")
               ELSE /\ socket' = << t, frame[t].redirects, FALSE >>
                    /\ Fail(t, frame[t], "socket", CannotCreateSocket, "createSocket error")
    /\ UNCHANGED << dispVars, args, aborted, syncLeft, enqLeft, env >>

ReqConnect(t) ==
    /\ pc[t] = "connect"
    /\ LET f == [IOStep(frame[t]) EXCEPT !.hops = @ + 1] IN
       \E ok \in IOResults(frame[t]) :
         IF ok THEN Goto(t, [f EXCEPT !.deadlinePassed = FALSE], "write")
               ELSE Fail(t, f, "connect", CannotConnect, "Cannot connect to url")
    /\ UNCHANGED << dispVars, socket, args, aborted, syncLeft, enqLeft, env >>

ReqWrite(t) ==
    /\ pc[t] = "write"
    /\ LET f == IOStep(frame[t])
           req == BuildRequest(args[t].verb, f.url, BodyOf(args[t].verb), args[t],
                               f.headers)
           g == [f EXCEPT !.req = req] IN
       \E ok \in IOResults(frame[t]) :
         IF ok THEN Goto(t, [g EXCEPT !.uploadSize = Len(req)], "status")
               ELSE Fail(t, g, "write", SendError, "Cannot send request")
    /\ UNCHANGED << dispVars, socket, args, aborted, syncLeft, enqLeft, env >>

ReqStatusLine(t) ==
    /\ pc[t] = "status"
    /\ LET f == IOStep(frame[t]) IN
       \/ /\ FALSE \in IOResults(frame[t])
          /\ Fail(t, f, "statusline", CannotReadStatusLine, "Cannot retrieve status line")
       \/ /\ TRUE \in IOResults(frame[t])
          /\ \E line \in env.lines :
               IF sscanfStatus(line) # 1
               THEN Fail(t, f, "statusparse", MissingStatus,
                         "Cannot parse response code from status line")
               ELSE Goto(t, [f EXCEPT !.code = line[2]], "headers")
    /\ UNCHANGED << dispVars, socket, args, aborted, syncLeft, enqLeft, env >>

ReqHeaders(t) ==
    /\ pc[t] = "headers"
    /\ \E ok \in IOResults(frame[t]), h \in env.headers :
         LET f == [IOStep(frame[t]) EXCEPT !.headers = h] IN
         IF ok THEN Goto(t, f, "redirect")
               ELSE Fail(t, f, "headers", HeaderParsingError, "Cannot parse http headers")
    /\ UNCHANGED << dispVars, socket, args, aborted, syncLeft, enqLeft, env >>

\* (a redirect test that takes every 30x status)
IsRedirect30x(code) == code >= 300 /\ code <= 309

IsRedirect(code) == code >= 301 /\ code <= 308

RedirectLimitReached(redirects, maxRedirects) == redirects >= maxRedirects

\* (a redirect check that tests the bound before the Location header)
RedirectCheckBoundFirst(code, follow, h, redirects, maxRedirects) ==
    IF ~(IsRedirect(code) /\ follow) THEN "none"
    ELSE IF RedirectLimitReached(redirects, maxRedirects) THEN "toomany"
    ELSE IF ~HeadersFind(h, "Location") THEN "missing"
    ELSE "follow"

\* The outcome of the redirect check of lines 276-297
RedirectCheck(code, follow, h, redirects, maxRedirects) ==
    IF ~(IsRedirect(code) /\ follow) THEN "none"
    ELSE IF ~HeadersFind(h, "Location") THEN "missing"
    ELSE IF RedirectLimitReached(redirects, maxRedirects) THEN "toomany"
    ELSE "follow"

\* (a recursion that passes its own redirect count on)
RedirectFrameSameCount(f) ==
    [NewFrame(f.redirects, f.hops, f.ops, f.answers) EXCEPT !.url = f.headers["Location"]]

\* (a recursion that goes on counting the bytes its parent uploaded)
RedirectFrameKeepsUpload(f) ==
    [NewFrame(f.redirects + 1, f.hops, f.ops, f.answers) EXCEPT
       !.url = f.headers["Location"], !.uploadSize = f.uploadSize]

\* request(location, verb, body, args, redirects+1): the locals of the recursive call
RedirectFrame(f) ==
    [NewFrame(f.redirects + 1, f.hops, f.ops, f.answers) EXCEPT
       !.url = f.headers["Location"]]

ReqRedirect(t) ==
    /\ pc[t] = "redirect"
    /\ LET f == frame[t]
           g == [f EXCEPT !.answers = @ + 1]
           check == RedirectCheck(f.code, args[t].followRedirects, f.headers,
                                  f.redirects, args[t].maxRedirects) IN
       CASE check = "missing" -> Fail(t, f, "redirect", MissingLocation,
                                      "Missing location header for redirect")
         [] check = "toomany" -> Fail(t, g, "redirect", TooManyRedirects,
                                      "Too many redirects")
         [] check = "follow" -> Goto(t, RedirectFrame(g), "lock")
         [] check = "none" -> Goto(t, f, "body")
    /\ UNCHANGED << dispVars, socket, args, aborted, syncLeft, enqLeft, env >>

\* (an extraction that finds no number)
ParseNoNumber(str) == 0

\* ss << headers["Content-Length"]; ss >> contentLength: the decimal value, and 0
\* when no number can be extracted
ParseDecimal(str) == CASE str = "1" -> 1 [] str = "2" -> 2 [] OTHER -> 0

\* n bytes as the transport delivers them, each tagged with what it belongs to
Bytes(n, tag) == [i \in 1..n |-> tag]

\* a successful inflate: the decompressed bytes
Inflated(payload) == [i \in 1..(2 * Len(payload)) |-> "plain"]

\* (a framing that looks for the chunked transfer encoding first)
FramingChunkedFirst(verb, code, h) ==
    IF verb = kHead THEN "head"
    ELSE IF HeadersFind(h, "Transfer-Encoding") /\ h["Transfer-Encoding"] = "chunked"
    THEN "chunked"
    ELSE IF HeadersFind(h, "Content-Length") THEN "length"
    ELSE IF code = 204 THEN "nocontent"
    ELSE "nobody"

\* (a framing that does not look at the verb)
FramingOfGet(verb, code, h) ==
    IF HeadersFind(h, "Content-Length") THEN "length"
    ELSE IF HeadersFind(h, "Transfer-Encoding") /\ h["Transfer-Encoding"] = "chunked"
    THEN "chunked"
    ELSE IF code = 204 THEN "nocontent"
    ELSE "nobody"

\* The branch request() takes once the redirect check is over
Framing(verb, code, h) ==
    IF verb = kHead THEN "head"
    ELSE IF HeadersFind(h, "Content-Length") THEN "length"
    ELSE IF HeadersFind(h, "Transfer-Encoding") /\ h["Transfer-Encoding"] = "chunked"
    THEN "chunked"
    ELSE IF code = 204 THEN "nocontent"
    ELSE "nobody"

ReqBody(t) ==
    /\ pc[t] = "body"
    /\ LET f == frame[t]
           framing == Framing(args[t].verb, f.code, f.headers) IN
       CASE framing = "head" -> Respond(t, f, Ok, "")
         [] framing = "length" ->
              LET contentLength == ParseDecimal(f.headers["Content-Length"]) IN
              \E ok \in IOResults(f) :
                IF ok THEN Goto(t, [IOStep(f) EXCEPT
                                      !.payload = @ \o Bytes(contentLength, "b")], "gzip")
                      ELSE Fail(t, [IOStep(f) EXCEPT !.errorMsg = "Cannot read chunk"],
                                "body", ChunkReadError, "Cannot read chunk")
         [] framing = "chunked" -> Goto(t, f, "chunk_line")
         [] framing = "nocontent" -> Goto(t, f, "gzip")
         [] framing = "nobody" -> Fail(t, f, "body", CannotReadBody, "Cannot read http body")
    /\ UNCHANGED << dispVars, socket, args, aborted, syncLeft, enqLeft, env >>

HexValue(digits) == CASE digits = "0" -> 0 [] digits = "1" -> 1 [] digits = "a" -> 10

\* Size lines the server may send next
ChunkLines(f) == IF Len(f.served) >= MaxChunks THEN {ZeroLine} ELSE env.sizeLines

\* the server has sent its zero-size chunk: it sends nothing after it
ServerDone(f) == \E i \in 1..Len(f.served) : f.served[i] = 0

\* Values an uninitialized uint64_t may be read as
IndeterminateSizes == {0, 1, 10}

\* uint64_t chunkSize; ss.str(""); ss << std::hex << line; ss >> chunkSize;
\* str("") leaves the stream's state as it is. On a good stream the digits are
\* extracted, and the extraction sets eofbit when it reaches the end of the line.
\* On a stream that is not good the insertion and the extraction do nothing, and
\* chunkSize keeps the indeterminate value it was declared with.
ParseChunkSize(good, line) ==
    IF good THEN [ sizes |-> {HexValue(line[1])}, good |-> line[2] # "" ]
            ELSE [ sizes |-> IndeterminateSizes, good |-> FALSE ]

ReqChunkLine(t) ==
    /\ pc[t] = "chunk_line"
    /\ LET f == IOStep(frame[t])
           results == IF ServerDone(f) THEN {FALSE} ELSE IOResults(frame[t]) IN
       \/ /\ FALSE \in results
          /\ Fail(t, f, "body", ChunkReadError, f.errorMsg)
       \/ /\ TRUE \in results
          /\ \E line \in ChunkLines(f) :
               LET parsed == ParseChunkSize(f.ssGood, line) IN
               \E size \in parsed.sizes :
                 Goto(t, [f EXCEPT !.chunkSize = size, !.ssGood = parsed.good,
                                   !.served = Append(@, HexValue(line[1]))],
                      "chunk_bytes")
    /\ UNCHANGED << dispVars, socket, args, aborted, syncLeft, enqLeft, env >>

ReqChunkBytes(t) ==
    /\ pc[t] = "chunk_bytes"
    /\ LET f == IOStep(frame[t]) IN
       \E ok \in IOResults(frame[t]) :
         IF ok THEN Goto(t, [f EXCEPT !.payload = @ \o Bytes(f.chunkSize, f.chunks + 1),
                                      !.chunks = @ + 1], "chunk_trail")
               ELSE Fail(t, [f EXCEPT !.errorMsg = "Cannot read chunk"],
                         "body", ChunkReadError, "Cannot read chunk")
    /\ UNCHANGED << dispVars, socket, args, aborted, syncLeft, enqLeft, env >>

ReqChunkTrailer(t) ==
    /\ pc[t] = "chunk_trail"
    /\ LET f == IOStep(frame[t]) IN
       \E ok \in IOResults(frame[t]) :
         IF ~ok THEN Fail(t, f, "body", ChunkReadError, f.errorMsg)
         ELSE IF f.chunkSize = 0 THEN Goto(t, f, "gzip")
         ELSE Goto(t, f, "chunk_line")
    /\ UNCHANGED << dispVars, socket, args, aborted, syncLeft, enqLeft, env >>

\* (a client that never decodes)
NeverGzip(h) == FALSE

\* headers["Content-Encoding"] == "gzip"
IsGzip(h) == HeadersIndex(h, "Content-Encoding")["Content-Encoding"] = "gzip"

ReqGzip(t) ==
    /\ pc[t] = "gzip"
    /\ LET f == [frame[t] EXCEPT !.downloadSize = Len(frame[t].payload),
                                 !.headers = HeadersIndex(@, "Content-Encoding")] IN
       IF IsGzip(frame[t].headers)
       THEN \E ok \in Results :
              IF ok THEN Respond(t, [f EXCEPT !.payload = Inflated(@)], Ok, "")
                    ELSE Fail(t, f, "gzip", Gzip, "Error decompressing payload")
       ELSE Respond(t, f, Ok, "")
    /\ UNCHANGED << dispVars, socket, args, aborted, syncLeft, enqLeft, env >>

\* The deadline of the phase the call is in passes
Expire(t) ==
    /\ pc[t] \in IOPcs
    /\ ~frame[t].deadlinePassed
    /\ frame' = [frame EXCEPT ![t].deadlinePassed = TRUE]
    /\ UNCHANGED << dispVars, mutex, mutexDepth, socket, pc, args, resp, aborted,
                    syncLeft, enqLeft, env >>

Request(t) ==
    \/ ReqLock(t) \/ ReqParse(t) \/ ReqSocket(t) \/ ReqConnect(t) \/ ReqWrite(t)
    \/ ReqStatusLine(t) \/ ReqHeaders(t) \/ ReqRedirect(t) \/ ReqBody(t)
    \/ ReqChunkLine(t) \/ ReqChunkBytes(t) \/ ReqChunkTrailer(t) \/ ReqGzip(t)

reqVars == << mutex, mutexDepth, socket, args, frame, resp >>

\* ------------------------------------- get / head / post (420-464), called directly
Call(t) ==
    /\ pc[t] = "idle"
    /\ dpc = "alive"
    /\ syncLeft > 0
    /\ syncLeft' = syncLeft - 1
    /\ \E a \in env.args : args' = [args EXCEPT ![t] = a]
    /\ frame' = [frame EXCEPT ![t] = NewFrame(0, 0, 0, 0)]
    /\ resp' = [resp EXCEPT ![t] = NoResp]
    /\ pc' = [pc EXCEPT ![t] = "lock"]
    /\ UNCHANGED << dispVars, mutex, mutexDepth, socket, aborted, enqLeft, env >>

\* the caller takes the response
CallReturn(t) ==
    /\ pc[t] = "done"
    /\ pc' = [pc EXCEPT ![t] = "idle"]
    /\ args' = [args EXCEPT ![t] = NoArgs]
    /\ frame' = [frame EXCEPT ![t] = NewFrame(0, 0, 0, 0)]
    /\ resp' = [resp EXCEPT ![t] = NoResp]
    /\ UNCHANGED << dispVars, mutex, mutexDepth, socket, aborted, syncLeft, enqLeft, env >>

\* ------------------------------------------- HttpClient::performRequest (52-70)
\* (a queue that takes new entries at its head)
PushFront(q, e) == << e >> \o q

\* _queue.push(entry)
Push(q, e) == Append(q, e)

\* (a performRequest that does not look at _async)
NeverSyncOnly == FALSE

\* if (!_async) return false;
SyncOnly == ~async

PerformRequest(t) ==
    /\ pc[t] = "idle"
    /\ dpc \notin {"destroyed", "terminated"}
    /\ enqLeft > 0
    /\ enqLeft' = enqLeft - 1
    /\ nextId' = nextId + 1
    /\ IF SyncOnly
       THEN /\ pc' = [pc EXCEPT ![t] = "ret_false"]
            /\ UNCHANGED myId
       ELSE /\ pc' = [pc EXCEPT ![t] = "enq_push"]
            /\ myId' = [myId EXCEPT ![t] = nextId]
    /\ UNCHANGED << async, stop, queue, queueMutex, dpc, entry, appended, started,
                    called, atStop, reqVars, aborted, syncLeft, env >>

EnqPush(t) ==
    /\ pc[t] = "enq_push"
    /\ queueMutex = NoThread
    /\ queue' = Push(queue, myId[t])
    /\ appended' = Append(appended, myId[t])
    /\ pc' = [pc EXCEPT ![t] = "enq_notify"]
    /\ UNCHANGED << async, stop, queueMutex, dpc, entry, nextId, myId, started, called,
                    atStop, reqVars, aborted, syncLeft, enqLeft, env >>

\* _condition.notify_one(): wakes the worker if it is waiting
NotifyOne(p) == IF p[Worker] = "w_wait" THEN [p EXCEPT ![Worker] = "w_woken"] ELSE p

EnqNotify(t) ==
    /\ pc[t] = "enq_notify"
    /\ pc' = [NotifyOne(pc) EXCEPT ![t] = "ret_true"]
    /\ UNCHANGED << dispVars, reqVars, aborted, syncLeft, enqLeft, env >>

PerformReturn(t) ==
    /\ pc[t] \in {"ret_true", "ret_false"}
    /\ pc' = [pc EXCEPT ![t] = "idle"]
    /\ myId' = [myId EXCEPT ![t] = 0]
    /\ UNCHANGED << async, stop, queue, queueMutex, dpc, entry, nextId, appended,
                    started, called, atStop, reqVars, aborted, syncLeft, enqLeft, env >>

\* ------------------------------------------------------ HttpClient::run (72-103)
WLock ==
    /\ pc[Worker] = "w_lock"
    /\ queueMutex = NoThread
    /\ queueMutex' = Worker
    /\ pc' = [pc EXCEPT ![Worker] = "w_check"]
    /\ UNCHANGED << async, stop, queue, dpc, entry, nextId, myId, appended, started,
                    called, atStop, reqVars, aborted, syncLeft, enqLeft, env >>

\* while (!_stop && _queue.empty())
WaitCondition == ~stop /\ queue = << >>

WCheck ==
    /\ pc[Worker] = "w_check"
    /\ pc' = [pc EXCEPT ![Worker] = IF WaitCondition THEN "w_callwait" ELSE "w_pop"]
    /\ UNCHANGED << dispVars, reqVars, aborted, syncLeft, enqLeft, env >>

\* _condition.wait(lock): releases _queueMutex and sleeps
WWait ==
    /\ pc[Worker] = "w_callwait"
    /\ queueMutex' = NoThread
    /\ pc' = [pc EXCEPT ![Worker] = "w_wait"]
    /\ UNCHANGED << async, stop, queue, dpc, entry, nextId, myId, appended, started,
                    called, atStop, reqVars, aborted, syncLeft, enqLeft, env >>

\* a wait may return without a notification
SpuriousWakeup ==
    /\ pc[Worker] = "w_wait"
    /\ pc' = [pc EXCEPT ![Worker] = "w_woken"]
    /\ UNCHANGED << dispVars, reqVars, aborted, syncLeft, enqLeft, env >>

\* wait() takes _queueMutex again before it returns
WWake ==
    /\ pc[Worker] = "w_woken"
    /\ queueMutex = NoThread
    /\ queueMutex' = Worker
    /\ pc' = [pc EXCEPT ![Worker] = "w_check"]
    /\ UNCHANGED << async, stop, queue, dpc, entry, nextId, myId, appended, started,
                    called, atStop, reqVars, aborted, syncLeft, enqLeft, env >>

\* if (_stop) return; p = _queue.front(); _queue.pop(); and the lock's scope ends
WPop ==
    /\ pc[Worker] = "w_pop"
    /\ queueMutex' = NoThread
    /\ IF stop
       THEN /\ pc' = [pc EXCEPT ![Worker] = "exit"]
            /\ UNCHANGED << queue, entry >>
       ELSE /\ entry' = Head(queue)
            /\ queue' = Tail(queue)
            /\ pc' = [pc EXCEPT ![Worker] = "w_96"]
    /\ UNCHANGED << async, stop, dpc, nextId, myId, appended, started, called, atStop,
                    reqVars, aborted, syncLeft, enqLeft, env >>

\* (a worker that does not look at _stop once it has popped an entry)
NoStopBeforeRequest == FALSE

\* if (_stop) return; after the entry was popped
StopBeforeRequest == stop

WCheckStop ==
    /\ pc[Worker] = "w_96"
    /\ pc' = [pc EXCEPT ![Worker] = IF StopBeforeRequest THEN "exit" ELSE "w_call"]
    /\ UNCHANGED << dispVars, reqVars, aborted, syncLeft, enqLeft, env >>

\* request(args->url, args->verb, args->body, args)
WCall ==
    /\ pc[Worker] = "w_call"
    /\ \E a \in env.args : args' = [args EXCEPT ![Worker] = a]
    /\ frame' = [frame EXCEPT ![Worker] = NewFrame(0, 0, 0, 0)]
    /\ resp' = [resp EXCEPT ![Worker] = NoResp]
    /\ started' = Append(started, entry)
    /\ pc' = [pc EXCEPT ![Worker] = "lock"]
    /\ UNCHANGED << async, stop, queue, queueMutex, dpc, entry, nextId, myId, appended,
                    called, atStop, mutex, mutexDepth, socket, aborted, syncLeft, enqLeft, env >>

\* onResponseCallback(response)
WCallback ==
    /\ pc[Worker] = "w_cb"
    /\ called' = Append(called, entry)
    /\ pc' = [pc EXCEPT ![Worker] = "w_101"]
    /\ UNCHANGED << async, stop, queue, queueMutex, dpc, entry, nextId, myId, appended,
                    started, atStop, reqVars, aborted, syncLeft, enqLeft, env >>

\* if (_stop) return; at the end of the loop body
WLoop ==
    /\ pc[Worker] = "w_101"
    /\ pc' = [pc EXCEPT ![Worker] = IF stop THEN "exit" ELSE "w_lock"]
    /\ args' = [args EXCEPT ![Worker] = NoArgs]
    /\ frame' = [frame EXCEPT ![Worker] = NewFrame(0, 0, 0, 0)]
    /\ resp' = [resp EXCEPT ![Worker] = NoResp]
    /\ UNCHANGED << dispVars, mutex, mutexDepth, socket, aborted, syncLeft, enqLeft, env >>

\* ------------------------------------------------- HttpClient::~HttpClient (34-41)
\* a caller is inside a synchronous call
InSyncCall(t) == pc[t] \in RequestPcs \cup {"done", "thrown"}

\* if (!_thread.joinable()) return;
DtorEnter ==
    /\ dpc = "alive"
    /\ \A t \in Callers : ~InSyncCall(t)
    /\ dpc' = IF async THEN "d_stop" ELSE "destroyed"
    /\ UNCHANGED << async, stop, queue, queueMutex, entry, nextId, myId, appended,
                    started, called, atStop, reqVars, pc, aborted, syncLeft, enqLeft, env >>

\* _stop = true;
DtorStop ==
    /\ dpc = "d_stop"
    /\ stop' = TRUE
    /\ atStop' = [ queued |-> { queue[i] : i \in 1..Len(queue) },
                   started |-> Len(started), passed |-> pc[Worker] = "w_call" ]
    /\ dpc' = "d_notify"
    /\ UNCHANGED << async, queue, queueMutex, entry, nextId, myId, appended, started,
                    called, reqVars, pc, aborted, syncLeft, enqLeft, env >>

\* _condition.notify_one();
DtorNotify ==
    /\ dpc = "d_notify"
    /\ pc' = NotifyOne(pc)
    /\ dpc' = "d_join"
    /\ UNCHANGED << async, stop, queue, queueMutex, entry, nextId, myId, appended,
                    started, called, atStop, reqVars, aborted, syncLeft, enqLeft, env >>

\* _thread.join();
DtorJoin ==
    /\ dpc = "d_join"
    /\ pc[Worker] = "exit"
    /\ dpc' = "destroyed"
    /\ UNCHANGED << async, stop, queue, queueMutex, entry, nextId, myId, appended,
                    started, called, atStop, reqVars, pc, aborted, syncLeft, enqLeft, env >>

\* ------------------------------------------------------------ specifications
SyncStep(t) == Call(t) \/ CallReturn(t)

EnqueueStep(t) == PerformRequest(t) \/ EnqPush(t) \/ EnqNotify(t) \/ PerformReturn(t)

WorkerStep ==
    \/ WLock \/ WCheck \/ WWait \/ WWake \/ WPop \/ WCheckStop \/ WCall \/ WCallback
    \/ WLoop

DtorStep == DtorEnter \/ DtorStop \/ DtorNotify \/ DtorJoin

\* The client used through performRequest, and destroyed
Next ==
    \/ \E t \in Threads : Request(t)
    \/ \E t \in Threads : Expire(t)
    \/ \E t \in Callers : EnqueueStep(t)
    \/ WorkerStep
    \/ SpuriousWakeup
    \/ DtorStep

Spec == Init /\ [][Next]_vars

\* Callers and the worker inside request() at the same time
MixedNext ==
    \/ \E t \in Threads : Request(t)
    \/ \E t \in Threads : Expire(t)
    \/ SyncStep(SyncCaller)
    \/ EnqueueStep(OtherCaller)
    \/ WorkerStep
    \/ SpuriousWakeup

MixedSpec == MixedInit /\ [][MixedNext]_vars

\* One caller, every request and every answer
EngineNext ==
    \/ Request(SyncCaller)
    \/ Expire(SyncCaller)
    \/ SyncStep(SyncCaller)

EngineSpec == EngineInit /\ [][EngineNext]_vars

\* Every thread that can take a step is scheduled; callers need not call, a deadline
\* need not pass and a wait need not return without a notification
FairSpec ==
    /\ Spec
    /\ WF_vars(WorkerStep)
    /\ WF_vars(Request(Worker))
    /\ WF_vars(DtorStop \/ DtorNotify \/ DtorJoin)
    /\ \A t \in Callers : WF_vars(EnqPush(t) \/ EnqNotify(t) \/ PerformReturn(t))

EngineFairSpec ==
    /\ EngineSpec
    /\ WF_vars(Request(SyncCaller))
    /\ WF_vars(CallReturn(SyncCaller))

\* ------------------------------------------------------------------ claims
\* request() has returned a response to its caller
Returned(t) == pc[t] \in {"done", "w_cb"}

\* The call is over: it returned, it waits for ever, or it ended in an exception
CallEnded(t) == Returned(t) \/ pc[t] \in {"selfwait", "thrown", "terminated"}

\* Every connection the logical call opened was answered by a redirect with Location,
\* and nothing else failed
OnlyRedirects(t) ==
    /\ frame[t].hops >= 1
    /\ frame[t].answers = frame[t].hops
    /\ frame[t].failed \in {"none", "redirect"}

\* C1: with followRedirects, a call whose redirect chain has at most maxRedirects
\* hops and ends in a non-redirect response eventually returns, and what it returns
\* is the response built from the final hop.
C1_RedirectChainReturns ==
    /\ (pc[SyncCaller] = "lock") ~> Returned(SyncCaller)
    /\ [](Returned(SyncCaller) =>
            /\ resp[SyncCaller].statusCode = frame[SyncCaller].code
            /\ resp[SyncCaller].headers = frame[SyncCaller].headers
            /\ resp[SyncCaller].payload = frame[SyncCaller].payload)

\* C2: _mutex is acquired once per logical call: no thread locks it, or waits for
\* it, while it is itself the holder.
C2_LockOncePerCall ==
    \A t \in Threads : ~(pc[t] \in {"lock", "selfwait"} /\ mutex = t) /\ mutexDepth <= 1

\* C3: with followRedirects, a call answered by maxRedirects + 1 redirects in a row
\* returns TooManyRedirects, having opened maxRedirects + 1 connections; no call
\* opens more than that.
C3_TooManyRedirectsReturned ==
    \A t \in Threads :
      /\ frame[t].hops <= args[t].maxRedirects + 1
      /\ (args[t].followRedirects /\ CallEnded(t) /\ OnlyRedirects(t))
            => /\ Returned(t)
               /\ resp[t].errorCode = TooManyRedirects
               /\ frame[t].hops = args[t].maxRedirects + 1

\* The logical call of t has made its first transport call and has not yet built
\* its final response
InSpan(t) == pc[t] \in RequestPcs /\ frame[t].ops >= 1

\* C4: calls into one client are serialized end to end: while a logical call is
\* between its first transport call and its final response, redirect hops included,
\* no other thread makes a transport call or assigns _socket.
C4_Serialized ==
    [][\A t, u \in Threads :
         (t # u /\ InSpan(t)) =>
            /\ ~(frame'[u].ops > frame[u].ops)
            /\ ~(pc[u] = "socket" /\ pc'[u] # "socket")]_vars

\* a call is on a redirect hop, about to make a transport call, while another
\* thread waits for _mutex
C4_Witness ==
    \E t, u \in Threads :
       /\ t # u
       /\ InSpan(t)
       /\ frame[t].redirects >= 1
       /\ pc[t] \in IOPcs
       /\ socket[1] = t
       /\ pc[u] = "lock"

Range(q) == { q[i] : i \in 1..Len(q) }

IsPrefix(p, q) == Len(p) <= Len(q) /\ \A i \in 1..Len(p) : p[i] = q[i]

\* C5: once ~HttpClient has raised _stop and notified the worker, the worker leaves
\* its loop and join returns (unless the request in flight never returns).
C5_ShutdownCompletes ==
    (dpc = "d_join") ~> (dpc = "destroyed" \/ pc[Worker] = "selfwait" \/ aborted)

\* C6 as claimed: an entry waiting in the queue when _stop is raised is never
\* executed nor called back, and once _stop is raised the worker starts no request.
C6_NoStartAfterStop ==
    [][/\ stop => started' = started
       /\ atStop'.queued \cap (Range(started') \cup Range(called')) = {}]_vars

\* C6 as amended: an entry waiting in the queue when _stop is raised is never
\* executed nor called back; after _stop is raised the worker starts at most the one
\* request whose check of _stop (after the pop) had already passed.
C6_QueuedAtStopDiscarded ==
    /\ atStop.queued \cap (Range(started) \cup Range(called)) = {}
    /\ stop => Len(started) <= atStop.started + (IF atStop.passed THEN 1 ELSE 0)
    /\ (stop /\ pc[Worker] \in {"w_96", "w_pop", "w_check", "w_callwait"})
          => Len(started) = atStop.started

\* _stop was raised while an entry waited in the queue and another was popped but
\* not begun, and the worker has left its loop
C6_Witness ==
    /\ stop
    /\ atStop.queued # {}
    /\ pc[Worker] = "exit"
    /\ Len(started) = atStop.started
    /\ entry \notin Range(started)
    /\ entry # 0

\* C7: a request executing when _stop is raised sees it through its cancellation
\* predicate: from then on the predicate given to its transport calls asks for
\* cancellation.
C7_StopCancelsInFlight ==
    (stop /\ pc[Worker] \in IOPcs) => IsCancellationRequested(frame[Worker])

\* C8: the worker starts requests and invokes callbacks in the order the entries
\* were pushed, one at a time, each callback before the next request starts.
C8_Fifo ==
    /\ IsPrefix(started, appended)
    /\ IsPrefix(called, started)
    /\ Len(started) <= Len(called) + 1
    /\ (pc[Worker] \in RequestPcs \cup {"w_cb"}) => (Len(started) = Len(called) + 1)
    /\ (pc[Worker] \in {"w_lock", "w_check", "w_callwait", "w_wait", "w_woken", "w_pop",
                        "w_96", "w_call", "w_101", "exit"}) => (Len(started) = Len(called))

\* two entries pushed in the opposite order of their calls were both served
C8_Witness ==
    /\ appended = << 2, 1 >>
    /\ called = << 2, 1 >>

\* C9: performRequest of a synchronous-only client returns false, queues nothing,
\* has no worker and invokes no callback; of an asynchronous client it returns true
\* and appends exactly its entry at the tail of the queue.
C9_PerformRequest ==
    [][\A t \in Callers :
         /\ (pc[t] = "idle" /\ pc'[t] = "ret_false")
               => (~async /\ queue' = queue /\ appended' = appended)
         /\ (pc[t] = "idle" /\ pc'[t] = "enq_push") => async
         /\ (pc[t] = "enq_push" /\ pc'[t] = "enq_notify")
               => (queue' = Append(queue, myId[t]) /\ myId[t] \notin Range(queue))
         /\ pc'[t] = "ret_true" => (async /\ myId[t] \in Range(appended'))
         /\ ~async' => /\ queue' = << >>
                       /\ called' = << >>
                       /\ started' = << >>
                       /\ pc'[Worker] = "nothread"
                       /\ pc'[t] \notin {"enq_push", "enq_notify", "ret_true"}]_vars

\* an asynchronous client has appended a second entry behind a waiting one and
\* returned true
C9_Witness ==
    /\ async
    /\ Len(queue) = 2
    /\ \E t \in Callers : pc[t] = "ret_true" /\ queue[2] = myId[t]

\* The error codes of each stage, in the order of the stages
StageCodes(stage) ==
    CASE stage = "none" -> {Ok}
      [] stage = "parse" -> {UrlMalformed}
      [] stage = "socket" -> {CannotCreateSocket}
      [] stage = "connect" -> {CannotConnect}
      [] stage = "write" -> {SendError}
      [] stage = "statusline" -> {CannotReadStatusLine}
      [] stage = "statusparse" -> {MissingStatus}
      [] stage = "headers" -> {HeaderParsingError}
      [] stage = "redirect" -> {MissingLocation, TooManyRedirects}
      [] stage = "body" -> {ChunkReadError, CannotReadBody}
      [] stage = "gzip" -> {Gzip}

\* C10: a failure ends the call at the stage that failed, with that stage's error
\* code; no transport call follows it; errorCode is Ok exactly when no stage failed.
C10_FirstFailureTerminal ==
    [][\A t \in Threads :
         /\ Returned(t)' =>
              /\ resp'[t].errorCode \in StageCodes(frame'[t].failed)
              /\ resp'[t].errorCode = Ok <=> frame'[t].failed = "none"
         /\ frame'[t].failed # "none" => Returned(t)'
         /\ frame[t].failed # "none" =>
              /\ ~(frame'[t].ops > frame[t].ops)
              /\ pc'[t] \notin RequestPcs]_vars

\* the header block of the first hop could not be read, after the connect, the
\* write and the status line succeeded
C10_Witness ==
    \E t \in Threads :
       /\ Returned(t)
       /\ resp[t].errorCode = HeaderParsingError
       /\ frame[t].ops = 4
       /\ resp[t].statusCode = 200

\* C11: for a verb other than HEAD, a Content-Length header selects the single
\* fixed-length read whatever else the response holds; otherwise a chunked
\* Transfer-Encoding selects the chunked decoder; otherwise status 204 gives an empty
\* body with no read; otherwise the call returns CannotReadBody with no read.
C11_FramingPriority ==
    [][\A t \in Threads :
         (pc[t] = "body" /\ pc'[t] # "body" /\ args[t].verb # kHead) =>
           LET f == frame[t]
               h == f.headers IN
           IF "Content-Length" \in DOMAIN h
           THEN /\ frame'[t].ops = f.ops + 1
                /\ frame'[t].chunks = 0
                /\ \/ pc'[t] = "gzip"
                   \/ Returned(t)' /\ resp'[t].errorCode = ChunkReadError
           ELSE IF "Transfer-Encoding" \in DOMAIN h /\ h["Transfer-Encoding"] = "chunked"
           THEN pc'[t] = "chunk_line" /\ frame'[t].ops = f.ops
           ELSE IF f.code = 204
           THEN pc'[t] = "gzip" /\ frame'[t].payload = << >> /\ frame'[t].ops = f.ops
           ELSE /\ Returned(t)'
                /\ resp'[t].errorCode = CannotReadBody
                /\ frame'[t].ops = f.ops]_vars

\* a response with both a Content-Length and a chunked Transfer-Encoding had its
\* body read by the fixed-length read
C11_Witness ==
    \E t \in Threads :
       /\ pc[t] = "gzip"
       /\ "Content-Length" \in DOMAIN frame[t].headers
       /\ "Transfer-Encoding" \in DOMAIN frame[t].headers
       /\ Len(frame[t].payload) = 1
       /\ frame[t].chunks = 0

\* C12: a HEAD request returns Ok with an empty body right after the header block
\* and the redirect check, with no further transport call, whatever Content-Length,
\* Transfer-Encoding or Content-Encoding the response holds.
C12_HeadReadsNoBody ==
    [][\A t \in Threads :
         (pc[t] = "body" /\ pc'[t] # "body" /\ args[t].verb = kHead) =>
           /\ Returned(t)'
           /\ resp'[t].errorCode = Ok
           /\ resp'[t].payload = << >>
           /\ frame'[t].ops = frame[t].ops
           /\ resp'[t].headers = frame[t].headers]_vars

\* a HEAD request was answered with a gzip-encoded Content-Length response and
\* returned Ok with no body
C12_Witness ==
    \E t \in Threads :
       /\ Returned(t)
       /\ args[t].verb = kHead
       /\ resp[t].errorCode = Ok
       /\ "Content-Length" \in DOMAIN resp[t].headers
       /\ HeadersGet(resp[t].headers, "Content-Encoding") = "gzip"
       /\ resp[t].payload = << >>

\* The body a chunked response carries: the bytes of its chunks, in order
RECURSIVE ChunkedBody(_, _)
ChunkedBody(sizes, n) ==
    IF n = 0 THEN << >> ELSE ChunkedBody(sizes, n - 1) \o Bytes(sizes[n], n)

\* C13: the chunked decoder reads each chunk with the size its size line announces,
\* returns the in-order concatenation of the chunks before the zero-size chunk, reads
\* no size line after the zero-size chunk, and answers a failed read of the decoder
\* with ChunkReadError.
C13_ChunkedDecoder ==
    \A t \in Threads :
       LET f == frame[t] IN
       /\ pc[t] = "chunk_bytes" => f.chunkSize = f.served[Len(f.served)]
       /\ pc[t] = "chunk_line" => ~ServerDone(f)
       /\ (Returned(t) /\ f.served # << >> /\ resp[t].errorCode = Ok) =>
             /\ f.served[Len(f.served)] = 0
             /\ resp[t].payload = ChunkedBody(f.served, Len(f.served))
       /\ (Returned(t) /\ f.served # << >> /\ f.failed # "none") =>
             resp[t].errorCode = ChunkReadError

\* The number of bytes a Content-Length header announces
Announced(h) == CASE h["Content-Length"] = "1" -> 1 [] h["Content-Length"] = "2" -> 2

\* C14: a response with Content-Length: N is read by one fixed-length read; when the
\* read succeeds the body read has N bytes and the response's downloadSize is N, and
\* when it fails the call returns ChunkReadError.
C14_ContentLength ==
    [][\A t \in Threads :
         LET f == frame[t]
             h == f.headers IN
         /\ (pc[t] = "body" /\ pc'[t] # "body" /\ args[t].verb # kHead
               /\ "Content-Length" \in DOMAIN h) =>
              /\ frame'[t].ops = f.ops + 1
              /\ \/ /\ pc'[t] = "gzip"
                    /\ Len(frame'[t].payload) = Announced(h)
                 \/ /\ Returned(t)'
                    /\ resp'[t].errorCode = ChunkReadError
                    /\ frame'[t].failed = "body"
         /\ (pc[t] = "gzip" /\ Returned(t)' /\ "Content-Length" \in DOMAIN h) =>
              /\ frame'[t].ops = f.ops
              /\ resp'[t].downloadSize = Announced(h)
              /\ resp'[t].errorCode = Ok /\ HeadersGet(h, "Content-Encoding") # "gzip"
                   => Len(resp'[t].payload) = Announced(h)]_vars

\* a response with Content-Length: 2 was returned with a body of two bytes
C14_Witness ==
    \E t \in Threads :
       /\ Returned(t)
       /\ resp[t].errorCode = Ok
       /\ args[t].verb # kHead
       /\ HeadersGet(resp[t].headers, "Content-Length") = "2"
       /\ Len(resp[t].payload) = 2
       /\ resp[t].downloadSize = 2

\* C15: with followRedirects set, a response with a status in 301..308 and no
\* Location header returns MissingLocation, with no recursion, no transport call and
\* no body read, also when the redirect count has reached maxRedirects.
C15_MissingLocationFirst ==
    [][\A t \in Threads :
         (pc[t] = "redirect" /\ pc'[t] # "redirect" /\ args[t].followRedirects
            /\ frame[t].code \in 301..308
            /\ "Location" \notin DOMAIN frame[t].headers) =>
           /\ Returned(t)'
           /\ resp'[t].errorCode = MissingLocation
           /\ resp'[t].payload = << >>
           /\ frame'[t].ops = frame[t].ops
           /\ frame'[t].hops = frame[t].hops
           /\ frame'[t].redirects = frame[t].redirects]_vars

\* a call whose redirect count had reached maxRedirects returned MissingLocation
C15_Witness ==
    \E t \in Threads :
       /\ Returned(t)
       /\ resp[t].errorCode = MissingLocation
       /\ args[t].followRedirects
       /\ frame[t].redirects >= args[t].maxRedirects

\* The lines of a request that carry the header `name`
HeaderCount(req, name) == Cardinality({ i \in 1..Len(req) : req[i][1] = name })

\* C16: the request written holds the Accept header exactly once and the User-Agent
\* header exactly once, whatever the caller's extraHeaders are.
C16_DefaultHeadersOnce ==
    \A t \in Threads :
       frame[t].req # << >> =>
         /\ HeaderCount(frame[t].req, "Accept") = 1
         /\ HeaderCount(frame[t].req, "User-Agent") = 1

\* C17: a returned response has an empty errorMsg exactly when its errorCode is Ok.
C17_MessageIffError ==
    \A t \in Threads :
       Returned(t) => (resp[t].errorCode = Ok <=> resp[t].errorMsg = "")

\* C18: when the response's Content-Encoding is gzip and a body was read, a failed
\* decompression returns Gzip with the body as it was read, a successful one returns
\* Ok with the decompressed body, and downloadSize is the size of the body as read.
C18_GzipKeepsBody ==
    [][\A t \in Threads :
         LET read == frame[t].payload IN
         (pc[t] = "gzip" /\ Returned(t)' /\ read # << >>
            /\ HeadersGet(frame[t].headers, "Content-Encoding") = "gzip") =>
           /\ resp'[t].downloadSize = Len(read)
           /\ \/ resp'[t].errorCode = Gzip /\ resp'[t].payload = read
              \/ /\ resp'[t].errorCode = Ok
                 /\ resp'[t].payload = Inflated(read)
                 /\ resp'[t].payload # read]_vars

\* a gzip-encoded body of one byte could not be decompressed and was returned as read
C18_Witness ==
    \E t \in Threads :
       /\ Returned(t)
       /\ resp[t].errorCode = Gzip
       /\ resp[t].payload = Bytes(1, "b")
       /\ resp[t].downloadSize = 1
       /\ HeadersGet(resp[t].headers, "Content-Encoding") = "gzip"

\* C19: a redirect hop is a call of request() with the Location value as its url and
\* the redirect count increased by one, counted from 0 at the first hop; the verb,
\* the body and the HttpRequestArgs are those of the call, so every hop writes the
\* request built from them, a POST body included.
C19_RedirectReusesCall ==
    [][\A t \in Threads :
         /\ (pc[t] \notin RequestPcs /\ pc'[t] = "lock") =>
              frame'[t].redirects = 0 /\ frame'[t].url = FirstUrl
         /\ (pc[t] = "redirect" /\ pc'[t] = "lock") =>
              /\ frame'[t].redirects = frame[t].redirects + 1
              /\ frame'[t].url = frame[t].headers["Location"]
         /\ (pc[t] \in RequestPcs /\ pc'[t] \in RequestPcs) => args'[t] = args[t]
         /\ (pc[t] = "write" /\ pc'[t] # "write") =>
              /\ frame'[t].req[1] = << args[t].verb, frame[t].url >>
              /\ SubSeq(frame'[t].req, 2, Len(frame'[t].req))
                   = SubSeq(BuildRequest(args[t].verb, FirstUrl, BodyOf(args[t].verb),
                                         args[t], NoHeaders),
                            2, Len(frame'[t].req))
              /\ args[t].verb = kPost =>
                   frame'[t].req[Len(frame'[t].req)] = << "body", "p" >>]_vars

\* the second hop of a POST has written its request, body included, to the
\* Location of the first
C19_Witness ==
    \E t \in Threads :
       /\ pc[t] = "status"
       /\ frame[t].redirects = 1
       /\ args[t].verb = kPost
       /\ frame[t].req[1] = << kPost, "u2" >>
       /\ frame[t].req[Len(frame[t].req)] = << "body", "p" >>

\* C20: with followRedirects unset, or with a status outside 301..308, the redirect
\* check changes nothing and passes the response on to the body framing: the call
\* opens one connection and returns neither MissingLocation nor TooManyRedirects.
C20_NoRedirectFollowed ==
    [][\A t \in Threads :
         /\ (pc[t] = "redirect" /\ pc'[t] # "redirect"
               /\ (~args[t].followRedirects \/ frame[t].code \notin 301..308)) =>
              pc'[t] = "body" /\ frame'[t] = frame[t]
         /\ (Returned(t)' /\ (~args'[t].followRedirects
                               \/ (frame'[t].redirects = 0
                                     /\ resp'[t].statusCode \notin 301..308))) =>
              /\ frame'[t].hops <= 1
              /\ frame'[t].redirects = 0
              /\ resp'[t].errorCode \notin {MissingLocation, TooManyRedirects}]_vars

\* a 301 answered to a call that does not follow redirects was returned with its body
C20_Witness ==
    \E t \in Threads :
       /\ Returned(t)
       /\ ~args[t].followRedirects
       /\ resp[t].statusCode = 301
       /\ "Content-Length" \in DOMAIN resp[t].headers
       /\ resp[t].errorCode = Ok
       /\ Len(resp[t].payload) = 1
       /\ frame[t].hops = 1

\* The place of each position of request() in the order of its stages; the three
\* positions of the chunked decoder are one stage, the body read
StageRank(p) ==
    CASE p \in {"lock", "selfwait"} -> 0
      [] p = "parse" -> 1
      [] p = "socket" -> 2
      [] p = "connect" -> 3
      [] p = "write" -> 4
      [] p = "status" -> 5
      [] p = "headers" -> 6
      [] p = "redirect" -> 7
      [] p \in {"body", "chunk_line", "chunk_bytes", "chunk_trail"} -> 8
      [] p = "gzip" -> 9

\* C21: inside a hop a call only moves forward through connect, write, status line,
\* headers and body read: no step goes back to an earlier stage, each of connect,
\* write, status-line read and header read is made once, a hop connects at most once,
\* and only the redirect recursion starts again, as a new hop.
C21_StagesInOrder ==
    [][\A t \in Threads :
         /\ (pc[t] \in RequestPcs /\ pc'[t] \in RequestPcs /\ pc'[t] # pc[t]) =>
              \/ StageRank(pc'[t]) > StageRank(pc[t])
              \/ StageRank(pc'[t]) = 8 /\ StageRank(pc[t]) = 8
              \/ pc[t] = "lock" /\ pc'[t] = "selfwait"
              \/ /\ pc[t] = "redirect" /\ pc'[t] = "lock"
                 /\ frame'[t].redirects = frame[t].redirects + 1
         /\ (pc[t] \in RequestPcs /\ pc'[t] = pc[t]) => frame'[t].ops = frame[t].ops
         /\ frame'[t].ops > frame[t].ops =>
              /\ pc[t] \in IOPcs
              /\ frame'[t].ops = frame[t].ops + 1
         /\ frame'[t].hops <= frame'[t].redirects + 1]_vars

\* a hop went through every stage, its chunked body read included, and returned
C21_Witness ==
    \E t \in Threads :
       /\ Returned(t)
       /\ resp[t].errorCode = Ok
       /\ frame[t].redirects = 0
       /\ frame[t].chunks >= 1
       /\ frame[t].ops >= 7

\* C22: a response returned by a failure before the status code was parsed has
\* statusCode 0 and no headers; uploadSize is 0 when the hop that returned did not
\* write its request, and the size of that hop's request when it did.
C22_PartialState ==
    \A t \in Threads :
       Returned(t) =>
         /\ resp[t].errorCode \in {UrlMalformed, CannotCreateSocket, CannotConnect,
                                   SendError, CannotReadStatusLine, MissingStatus} =>
              resp[t].statusCode = 0 /\ resp[t].headers = NoHeaders
         /\ resp[t].errorCode \in {UrlMalformed, CannotCreateSocket, CannotConnect,
                                   SendError} =>
              resp[t].uploadSize = 0
         /\ resp[t].errorCode \notin {UrlMalformed, CannotCreateSocket, CannotConnect,
                                      SendError} =>
              /\ frame[t].req # << >>
              /\ resp[t].uploadSize = Len(frame[t].req)

\* the second hop of a call could not connect and returned with nothing uploaded
C22_Witness ==
    \E t \in Threads :
       /\ Returned(t)
       /\ frame[t].redirects = 1
       /\ resp[t].errorCode = CannotConnect
       /\ resp[t].uploadSize = 0
       /\ resp[t].statusCode = 0

\* Ids of the entries callers may enqueue
EntryIds == 1..MaxEnqueue

\* C23: the callback of an entry is invoked only after the worker has started the
\* entry's request, never twice, and every entry whose request the worker has started
\* has its callback invoked in the end, also when stop is raised meanwhile.
C23_StartedIsCalledOnce ==
    /\ [](/\ IsPrefix(called, started)
          /\ \A i, j \in 1..Len(called) : called[i] = called[j] => i = j)
    /\ \A e \in EntryIds : (e \in Range(started)) ~> (e \in Range(called))

\* C24: once the header block is parsed, no step of the call changes the header
\* mapping, and the response returned carries it as it was parsed.
C24_HeadersAsParsed ==
    [][\A t \in Threads :
         pc[t] \in {"redirect", "body", "chunk_line", "chunk_bytes", "chunk_trail",
                    "gzip"} =>
           /\ Returned(t)' => resp'[t].headers = frame[t].headers
           /\ pc'[t] \in RequestPcs \ {"lock"} => frame'[t].headers = frame[t].headers]_vars

====
